---- MODULE Spec2Model ----
(***************************************************************************)
(* The Tymer analytics dashboard (app.py): one Streamlit script that loads *)
(* the contact_messages table through a 60 second cache, computes three    *)
(* KPI counts, and renders a chart, a preview of the latest messages, the  *)
(* full table and its CSV export.  One run of the script is one action.    *)
(*                                                                         *)
(* Instants are whole seconds since 1970-01-01T00:00Z.  A column name is a *)
(* sequence of one-character strings, so that lower(), the substring test  *)
(* and title() are computed, not assumed.                                  *)
(***************************************************************************)
EXTENDS Integers, Sequences, FiniteSets, TLC

VARIABLES
    now,            \* the wall clock, UTC seconds
    remote,         \* the contact_messages table held by the data source
    service,        \* what execute() does: "ok", "network", "auth", "malformed"
    cache,          \* st.cache_data's entries for load_contact_messages
    contact_df,     \* line 59
    error,          \* the st.error element shown by this run ("" when none)
    total,          \* the TOTAL MESSAGES card, line 75
    today_messages, \* line 78-81
    last_7_days,    \* line 91-94
    daily_contacts, \* line 110-111, the chart's data
    recent,         \* the Recent Activity section, lines 128-152
    display_df,     \* line 159-165
    csv,            \* line 168
    raised,         \* the exception that ended the run ("" when it completed)
    passes,         \* runs of the script so far
    queries,        \* execute() calls so far
    response,       \* what the last execute() call was answered with
    fetched,        \* the last value load_contact_messages computed, and when
    clock           \* the instants the last run read: call, today, week

vars == <<now, remote, service, cache, contact_df, error, total, today_messages,
          last_7_days, daily_contacts, recent, display_df, csv, raised, passes,
          queries, response, fetched, clock>>

(***************************************************************************)
(* Bounds of the model.                                                    *)
(***************************************************************************)
MaxSeedRows == 3        \* rows of the tables SpecView starts from
MaxKpiRows == 2         \* rows of the tables of SpecKpi
MaxRows == 11           \* rows the table grows to by Submit
MaxPasses == 2          \* runs of the script
MaxCols == 3            \* columns of the tables of SpecLoad
MaxLoadRows == 1        \* rows of the tables of SpecLoad
MaxClock == 62          \* seconds the clock of Spec runs for
MaxArrivals == 1        \* messages that arrive while Spec runs

(***************************************************************************)
(* Program constants.                                                      *)
(***************************************************************************)
TTL == 60               \* @st.cache_data(ttl=60)
HEAD == 10              \* .head(10)
WEEK_DAYS == 7          \* pd.Timedelta(days=7)
SecondsPerDay == 24 * 60 * 60
NanosPerSecond == 1000 * 1000 * 1000

(***************************************************************************)
(* Text.                                                                   *)
(***************************************************************************)
UpperChars == <<"A","B","C","D","E","F","G","H","I","J","K","L","M",
                "N","O","P","Q","R","S","T","U","V","W","X","Y","Z">>
LowerChars == <<"a","b","c","d","e","f","g","h","i","j","k","l","m",
                "n","o","p","q","r","s","t","u","v","w","x","y","z">>

\* the upper- and lower-case form of each letter
ToLower == [c \in {UpperChars[i] : i \in DOMAIN UpperChars} |->
               LowerChars[CHOOSE i \in DOMAIN UpperChars : UpperChars[i] = c]]
ToUpper == [c \in {LowerChars[i] : i \in DOMAIN LowerChars} |->
               UpperChars[CHOOSE i \in DOMAIN LowerChars : LowerChars[i] = c]]

IsUpper(c) == c \in DOMAIN ToLower
IsLower(c) == c \in DOMAIN ToUpper
IsAlpha(c) == IsUpper(c) \/ IsLower(c)

LowerChar(c) == IF IsUpper(c) THEN ToLower[c] ELSE c
UpperChar(c) == IF IsLower(c) THEN ToUpper[c] ELSE c

\* str.lower()
Lower(s) == [i \in 1..Len(s) |-> LowerChar(s[i])]

\* sub in s
Contains(sub, s) ==
    \E i \in 0..(Len(s) - Len(sub)) : SubSeq(s, i + 1, i + Len(sub)) = sub

\* str.replace('_', ' ')
ReplaceUnderscore(s) == [i \in 1..Len(s) |-> IF s[i] = "_" THEN " " ELSE s[i]]

\* str.title(): a letter that follows a non-letter is upper-cased, every
\* other letter lower-cased
Title(s) ==
    [i \in 1..Len(s) |->
        IF i = 1 \/ ~IsAlpha(s[i - 1]) THEN UpperChar(s[i]) ELSE LowerChar(s[i])]

created == <<"c","r","e","a","t","e","d">>
time == <<"t","i","m","e">>
request_time == <<"r","e","q","u","e","s","t","_","t","i","m","e">>
name == <<"n","a","m","e">>
email == <<"e","m","a","i","l">>
id == <<"i","d">>
Unknown == <<"U","n","k","n","o","w","n">>

\* Column names the data source may use besides the ones above.
created_at == <<"c","r","e","a","t","e","d","_","a","t">>
Created_At == <<"C","r","e","a","t","e","d","_","A","t">>
updated_time == <<"u","p","d","a","t","e","d","_","t","i","m","e">>
TIMESTAMP == <<"T","I","M","E","S","T","A","M","P">>
message == <<"m","e","s","s","a","g","e">>

\* every column name of the model
ColumnNames == {request_time, name, email, id, created_at, Created_At, updated_time,
                TIMESTAMP, message}

\* line 148: col.replace('_', ' ').title(), tabulated over the column names
FieldLabel == [c \in ColumnNames |-> Title(ReplaceUnderscore(c))]

(***************************************************************************)
(* Cells.  A JSON value of the response is None, a number, a text or a     *)
(* text holding an ISO-8601 instant (wall-clock seconds and UTC offset);   *)
(* a parsed column holds UTC instants and NaT.                             *)
(***************************************************************************)
None == [k |-> "none"]
Num(n) == [k |-> "num", n |-> n]
Text(s) == [k |-> "text", s |-> s]
Iso(wall, off) == [k |-> "iso", wall |-> wall, off |-> off]
Ts(t) == [k |-> "ts", t |-> t]
NaT == [k |-> "nat"]

\* pd.to_datetime(value, utc=True) of one cell: does it raise, and its value
Parses(c) == c.k \in {"none", "num", "iso", "ts", "nat"}

ToDatetime(c) ==
    CASE c.k = "iso" -> Ts(c.wall - c.off)
      [] c.k = "num" -> Ts(c.n \div NanosPerSecond)
      [] c.k = "ts" -> c
      [] OTHER -> NaT

\* str(value), as an f-string and to_csv write a cell
Str(c) ==
    CASE c.k = "none" -> <<"None">>
      [] c.k = "nat" -> <<"NaT">>
      [] c.k = "num" -> <<"num", c.n>>
      [] c.k = "text" -> <<"text", c.s>>
      [] c.k = "iso" -> <<"iso", c.wall, c.off>>
      [] c.k = "ts" -> <<"utc", c.t>>

(***************************************************************************)
(* Data frames: the column labels, the row labels (index) and the rows.    *)
(***************************************************************************)
EmptyFrame == [columns |-> <<>>, index |-> <<>>, data |-> <<>>]

\* pd.DataFrame(response.data): the keys of the records are the columns,
\* the rows are labelled 0, 1, ...
DataFrame(data) ==
    IF data = <<>> THEN EmptyFrame
    ELSE [columns |-> [j \in 1..Len(data[1]) |-> data[1][j][1]],
          index |-> [i \in 1..Len(data) |-> i - 1],
          data |-> [i \in 1..Len(data) |->
                       [j \in 1..Len(data[i]) |-> data[i][j][2]]]]

\* df.empty: an axis of length 0
Empty(df) == Len(df.index) = 0 \/ Len(df.columns) = 0

\* col in df.columns
HasColumn(df, col) == \E j \in DOMAIN df.columns : df.columns[j] = col

\* the positions of the columns labelled col
Positions(df, col) == {j \in DOMAIN df.columns : df.columns[j] = col}

\* df[col] = values: every column labelled col takes the values
SetColumn(df, col, values) ==
    [df EXCEPT !.data =
        [i \in 1..Len(df.data) |->
            [j \in 1..Len(df.columns) |->
                IF df.columns[j] = col THEN values[i] ELSE df.data[i][j]]]]

\* df.rename(columns={old: new})
Rename(df, old, new) ==
    [df EXCEPT !.columns =
        [j \in 1..Len(df.columns) |->
            IF df.columns[j] = old THEN new ELSE df.columns[j]]]

\* the rows at the given positions, in that order, keeping their labels
Take(df, order) ==
    [df EXCEPT !.index = [i \in 1..Len(order) |-> df.index[order[i]]],
               !.data = [i \in 1..Len(order) |-> df.data[order[i]]]]

\* head() with the bound off by one
HeadRows_OffByOne(df, n) ==
    LET m == IF Len(df.index) < n + 1 THEN Len(df.index) ELSE n + 1
    IN  Take(df, [i \in 1..m |-> i])

\* df.head(n)
HeadRows(df, n) ==
    LET m == IF Len(df.index) < n THEN Len(df.index) ELSE n
    IN  Take(df, [i \in 1..m |-> i])

\* df[cols] with a list of labels
Select(df, cols) ==
    [df EXCEPT !.columns = cols,
               !.data = [i \in 1..Len(df.data) |->
                   [c \in 1..Len(cols) |->
                       df.data[i][CHOOSE j \in DOMAIN df.columns : df.columns[j] = cols[c]]]]]

(***************************************************************************)
(* The data source.                                                        *)
(***************************************************************************)
\* supabase.table("contact_messages").select("*").execute(): the rows as
\* records of (key, value) in the table's column order, or an exception
Execute(table, status) ==
    IF status = "ok"
    THEN [status |-> "ok",
          data |-> [i \in 1..Len(table.rows) |->
                       [j \in 1..Len(table.columns) |->
                           <<table.columns[j], table.rows[i][j]>>]]]
    ELSE [status |-> status, data |-> <<>>]

(***************************************************************************)
(* load_contact_messages, lines 44-56.                                     *)
(***************************************************************************)
\* the test without .lower()
IsTimeCol_CaseSensitive(col) == Contains(created, col) \/ Contains(time, col)

\* line 49: 'created' in col.lower() or 'time' in col.lower()
IsTimeCol(col) == Contains(created, Lower(col)) \/ Contains(time, Lower(col))

\* IsTimeCol tabulated over the column names
TimeColNames == {c \in ColumnNames : IsTimeCol(c)}

\* line 49: the time-like columns in column order
TimeCols(df) == SelectSeq(df.columns, LAMBDA c : c \in TimeColNames)

\* the values of the one column labelled col
Column(df, col) ==
    LET j == CHOOSE p \in DOMAIN df.columns : df.columns[p] = col
    IN  [i \in 1..Len(df.data) |-> df.data[i][j]]

\* lines 48-52
Normalize(df) ==
    IF Empty(df) \/ TimeCols(df) = <<>> THEN [raised |-> "", df |-> df]
    ELSE LET col == TimeCols(df)[1]
             values == Column(df, col)
         IN  IF \E i \in DOMAIN values : ~Parses(values[i])
             THEN [raised |-> "to_datetime", df |-> df]
             ELSE [raised |-> "",
                   df |-> Rename(SetColumn(df, col,
                              [i \in DOMAIN values |-> ToDatetime(values[i])]),
                              col, request_time)]

\* the handler as it would be without line 55: nothing reported
Handle_Silent(exception) == [value |-> EmptyFrame, error |-> ""]

\* lines 45-56: the value returned and the error reported
Handle(exception) == [value |-> EmptyFrame, error |-> exception]

LoadContactMessages(resp) ==
    IF resp.status # "ok" THEN Handle(resp.status)
    ELSE LET n == Normalize(DataFrame(resp.data))
         IN  IF n.raised # "" THEN Handle(n.raised)
             ELSE [value |-> n.df, error |-> ""]

(***************************************************************************)
(* st.cache_data(ttl=60), line 43: entries keyed by the call's arguments,  *)
(* each valid until TTL seconds after it was stored.                       *)
(***************************************************************************)
CacheKey == <<>>

\* an entry still served at the instant it expires
Fresh_Inclusive(entry, t) == t <= entry.stored + TTL

Fresh(entry, t) == t < entry.stored + TTL

Hit(entries, t) == {e \in entries : e.key = CacheKey /\ Fresh(e, t)}

Store(entries, value, err, t) ==
    {e \in entries : e.key # CacheKey /\ Fresh(e, t)}
        \cup {[key |-> CacheKey, value |-> value, error |-> err, stored |-> t]}

(***************************************************************************)
(* Instants and days.                                                      *)
(***************************************************************************)
\* Timestamp.normalize(): midnight of the instant's UTC day
NormalizeTs(t) == t - (t % SecondsPerDay)

\* .dt.date: the UTC calendar date, as days since 1970-01-01
DateOf(t) == t \div SecondsPerDay

\* pd.Timedelta(days=7)
Timedelta(days) == days * SecondsPerDay

RECURSIVE SortAsc(_)
SortAsc(S) ==
    IF S = {} THEN <<>>
    ELSE LET m == CHOOSE x \in S : \A y \in S : x <= y
         IN  <<m>> \o SortAsc(S \ {m})

RECURSIVE SortDesc(_)
SortDesc(S) ==
    IF S = {} THEN <<>>
    ELSE LET m == CHOOSE x \in S : \A y \in S : x >= y
         IN  <<m>> \o SortDesc(S \ {m})

RECURSIVE Perms(_)
Perms(S) ==
    IF S = {} THEN {<<>>}
    ELSE UNION {{<<x>> \o p : p \in Perms(S \ {x})} : x \in S}

(***************************************************************************)
(* The KPI cards, lines 67-101.                                            *)
(***************************************************************************)
\* 'request_time' in contact_df.columns, the guard of lines 79, 92, 109
HasRequestTime(df) == ~Empty(df) /\ HasColumn(df, request_time)

\* contact_df['request_time'].dt: a frame (two columns of that label) or a
\* column that is not datetime-like has no .dt accessor
DtRaises(df) ==
    \/ Cardinality(Positions(df, request_time)) > 1
    \/ \E i \in DOMAIN df.data : \E j \in Positions(df, request_time) :
           df.data[i][j].k \notin {"ts", "nat"}

\* line 75
Total(df) == Len(df.index)

\* Today as the last 24 hours instead of the UTC calendar day
TodayMessages_Last24h(df, t) ==
    IF ~Empty(df) /\ HasColumn(df, request_time)
    THEN LET col == Column(df, request_time)
         IN  Cardinality({i \in DOMAIN col :
                 col[i].k = "ts" /\ col[i].t > t - SecondsPerDay /\ col[i].t <= t})
    ELSE 0

\* lines 78-81, with t the instant pd.Timestamp.now(tz='UTC') returns
TodayMessages(df, t) ==
    IF HasRequestTime(df)
    THEN LET today == NormalizeTs(t)
             col == Column(df, request_time)
         IN  Cardinality({i \in DOMAIN col :
                 col[i].k = "ts" /\ NormalizeTs(col[i].t) = today})
    ELSE 0

\* the window with its boundary instant left out
Last7Days_Strict(df, t) ==
    IF ~Empty(df) /\ HasColumn(df, request_time)
    THEN LET week_ago == t - Timedelta(WEEK_DAYS)
             col == Column(df, request_time)
         IN  Cardinality({i \in DOMAIN col :
                 col[i].k = "ts" /\ col[i].t > week_ago})
    ELSE 0

\* the window closed at the instant read: rows dated after it left out
Last7Days_UpToNow(df, t) ==
    IF ~Empty(df) /\ HasColumn(df, request_time)
    THEN LET week_ago == t - Timedelta(WEEK_DAYS)
             col == Column(df, request_time)
         IN  Cardinality({i \in DOMAIN col :
                 col[i].k = "ts" /\ col[i].t >= week_ago /\ col[i].t <= t})
    ELSE 0

\* lines 91-94
Last7Days(df, t) ==
    IF HasRequestTime(df)
    THEN LET week_ago == t - Timedelta(WEEK_DAYS)
             col == Column(df, request_time)
         IN  Cardinality({i \in DOMAIN col :
                 col[i].k = "ts" /\ col[i].t >= week_ago})
    ELSE 0

\* lines 109-111: (Date, Messages) by ascending date, or no chart
DailyContacts(df) ==
    IF HasRequestTime(df)
    THEN LET col == Column(df, request_time)
             dates == SortAsc({DateOf(col[i].t) : i \in {r \in DOMAIN col : col[r].k = "ts"}})
         IN  [d \in 1..Len(dates) |->
                 <<dates[d], Cardinality({i \in DOMAIN col :
                       col[i].k = "ts" /\ DateOf(col[i].t) = dates[d]})>>]
    ELSE <<>>

(***************************************************************************)
(* sort_values('request_time', ascending=False), lines 131 and 161: the    *)
(* instants in descending order, then the NaT rows in their own order.     *)
(* The default sort is not stable: rows of equal instant come out in an    *)
(* order the library does not fix.                                         *)
(***************************************************************************)
RECURSIVE Arrange(_, _, _)
Arrange(col, values, k) ==
    IF k > Len(values) THEN {<<>>}
    ELSE {p \o r : p \in Perms({i \in DOMAIN col :
                                   col[i].k = "ts" /\ col[i].t = values[k]}),
                   r \in Arrange(col, values, k + 1)}

SortOrders(df) ==
    LET col == Column(df, request_time)
        values == SortDesc({col[i].t : i \in {r \in DOMAIN col : col[r].k = "ts"}})
        last == SortAsc({i \in DOMAIN col : col[i].k # "ts"})
    IN  {a \o last : a \in Arrange(col, values, 1)}

\* the orders this frame can come out of the sort in (its own order when
\* the script does not sort it)
Orders(df) ==
    IF HasRequestTime(df) /\ ~DtRaises(df) THEN SortOrders(df)
    ELSE {[i \in 1..Len(df.index) |-> i]}

\* lines 129-131 and 160-163
Sorted(df, order) == IF HasColumn(df, request_time) THEN Take(df, order) ELSE df

(***************************************************************************)
(* Recent Activity, lines 128-152.                                         *)
(***************************************************************************)
\* lines 134-137
PreviewCols(df) == SelectSeq(<<name, email, request_time>>, LAMBDA c : HasColumn(df, c))

\* row.get(col, default) on a row of preview_df
RowGet(df, i, col, default) ==
    IF HasColumn(df, col) THEN Str(Column(df, col)[i]) ELSE <<"text", default>>

\* lines 145-148: the row of contact_df labelled idx, every field but id
FullRow(df, idx) ==
    LET i == CHOOSE r \in DOMAIN df.index :
                 df.index[r] = idx /\ \A q \in 1..(r - 1) : df.index[q] # idx
        shown == SelectSeq([j \in 1..Len(df.columns) |-> j],
                           LAMBDA j : df.columns[j] # id)
    IN  [f \in 1..Len(shown) |->
            <<FieldLabel[df.columns[shown[f]]], Str(df.data[i][shown[f]])>>]

\* the expanders filled from the row at the preview's position, not the row
\* of the preview row's label
Expanders_ByPosition(df, preview_df) ==
    [i \in 1..Len(preview_df.index) |->
        [idx |-> preview_df.index[i],
         label |-> <<RowGet(preview_df, i, name, Unknown), RowGet(preview_df, i, email, <<>>)>>,
         fields |-> FullRow(df, i - 1)]]

\* lines 143-148
Expanders(df, preview_df) ==
    [i \in 1..Len(preview_df.index) |->
        [idx |-> preview_df.index[i],
         label |-> <<RowGet(preview_df, i, name, Unknown), RowGet(preview_df, i, email, <<>>)>>,
         fields |-> FullRow(df, preview_df.index[i])]]

NoRecent == [kind |-> "none", frame |-> EmptyFrame, expanders |-> <<>>]

RecentActivity(df, order) ==
    IF Empty(df) THEN [NoRecent EXCEPT !.kind = "info"]
    ELSE LET recent_contacts == Sorted(df, order)
             preview_cols == PreviewCols(recent_contacts)
         IN  IF preview_cols # <<>>
             THEN LET preview_df == HeadRows(Select(recent_contacts, preview_cols), HEAD)
                  IN  [kind |-> "expanders", frame |-> preview_df,
                       expanders |-> Expanders(df, preview_df)]
             ELSE [kind |-> "dataframe", frame |-> HeadRows(recent_contacts, HEAD),
                   expanders |-> <<>>]

(***************************************************************************)
(* All Contact Messages and the CSV download, lines 159-176.               *)
(***************************************************************************)
DisplayDf(df, order) == IF Empty(df) THEN EmptyFrame ELSE Sorted(df, order)

\* a cell as to_csv writes it: nothing for a missing value
CsvCell(c) == IF c.k \in {"none", "nat"} THEN <<>> ELSE Str(c)

\* to_csv with the row labels written (index=True)
ToCsv_WithIndex(df) ==
    <<<<<<>>>> \o df.columns>> \o
    [i \in 1..Len(df.data) |->
        <<<<"num", df.index[i]>>>> \o
        [j \in 1..Len(df.columns) |-> CsvCell(df.data[i][j])]]

\* display_df.to_csv(index=False): the header, then a line per row
ToCsv(df) ==
    <<df.columns>> \o
    [i \in 1..Len(df.data) |-> [j \in 1..Len(df.columns) |-> CsvCell(df.data[i][j])]]

Csv(df, order) == IF Empty(df) THEN <<>> ELSE ToCsv(DisplayDf(df, order))

(***************************************************************************)
(* One run of the script: the call of line 59, then what the lines below   *)
(* put on the page when load_contact_messages returned df, the clock read  *)
(* t at line 80 and t + d at line 93, and the sorts came out in order.     *)
(***************************************************************************)
\* line 81 raises: the run stops there, after the first KPI card
Raises(df) == HasRequestTime(df) /\ DtRaises(df)

\* what lines 105-176 put on the page: the chart's data, Recent Activity,
\* the full table and its CSV
Sections(df, order) ==
    IF Raises(df)
    THEN [daily_contacts |-> <<>>, recent |-> NoRecent, display_df |-> EmptyFrame,
          csv |-> <<>>]
    ELSE [daily_contacts |-> DailyContacts(df),
          recent |-> RecentActivity(df, order),
          display_df |-> DisplayDf(df, order),
          csv |-> Csv(df, order)]

\* the time the script takes between two readings of the clock
Delay == {0, 1}

Show(df, err, t, d, page) ==
    /\ contact_df' = df
    /\ error' = err
    /\ total' = Total(df)
    /\ today_messages' = IF Raises(df) THEN 0 ELSE TodayMessages(df, t)
    /\ last_7_days' = IF Raises(df) THEN 0 ELSE Last7Days(df, t + d)
    /\ daily_contacts' = page.daily_contacts
    /\ recent' = page.recent
    /\ display_df' = page.display_df
    /\ csv' = page.csv
    /\ raised' = IF Raises(df) THEN "AttributeError" ELSE ""
    /\ now' = t + d
    /\ clock' = [call |-> now, today |-> t, week |-> t + d]
    /\ passes' = passes + 1

\* A run whose call of load_contact_messages finds no valid cache entry:
\* the function runs, taking lat seconds, and its value is stored.
RenderFresh ==
    /\ passes < MaxPasses
    /\ Hit(cache, now) = {}
    /\ LET resp == Execute(remote, service)
           r == LoadContactMessages(resp)
       IN  /\ queries' = queries + 1
           /\ response' = resp
           /\ \E order \in Orders(r.value) :
                LET page == Sections(r.value, order)
                IN  \E lat \in Delay, d \in Delay :
                      /\ cache' = Store(cache, r.value, r.error, now + lat)
                      /\ fetched' = [any |-> TRUE, value |-> r.value, at |-> now + lat]
                      /\ Show(r.value, r.error, now + lat, d, page)
    /\ UNCHANGED <<remote, service>>

\* A run whose call is answered from the cache: the stored value, and the
\* stored st.error element replayed.
RenderCached ==
    /\ passes < MaxPasses
    /\ \E e \in Hit(cache, now) :
         \E order \in Orders(e.value) :
           LET page == Sections(e.value, order)
           IN  \E d \in Delay : Show(e.value, e.error, now, d, page)
    /\ UNCHANGED <<remote, service, cache, queries, response, fetched>>

(***************************************************************************)
(* The environment: visitors submit the contact form, time passes, the     *)
(* data source fails and recovers.                                         *)
(***************************************************************************)
Ada == <<"A","d","a">>
AdaMail == <<"a","@","b",".","c">>
Hello == <<"h","i">>

\* the cell of a message under a column of the table
CellFor(col, m) ==
    CASE col = id -> Num(m.id)
      [] col = name -> m.name
      [] col = email -> m.email
      [] col = message -> Text(Hello)
      [] OTHER -> m.t

MkRow(cols, m) == [j \in 1..Len(cols) |-> CellFor(cols[j], m)]

Msg(i, n, t) == [id |-> i, name |-> n, email |-> Text(AdaMail), t |-> t]

\* a message arrives, stamped with the clock; the next one arrives a second
\* later at the earliest
Submit ==
    /\ Len(remote.rows) < MaxRows
    /\ remote' = [remote EXCEPT !.rows =
           Append(@, MkRow(remote.columns, Msg(Len(remote.rows) + 1, Text(Ada), Iso(now, 0))))]
    /\ now' = now + 1
    /\ UNCHANGED <<service, cache, contact_df, error, total, today_messages, last_7_days,
                   daily_contacts, recent, display_df, csv, raised, passes, queries,
                   response, fetched, clock>>

Midnight == 19724 * SecondsPerDay   \* 2024-01-02T00:00Z
T0 == Midnight + 3600               \* 2024-01-02T01:00Z

TickSteps == {29, 30}

Tick ==
    /\ \E d \in TickSteps : now + d <= T0 + MaxClock /\ now' = now + d
    /\ UNCHANGED <<remote, service, cache, contact_df, error, total, today_messages,
                   last_7_days, daily_contacts, recent, display_df, csv, raised, passes,
                   queries, response, fetched, clock>>

Failures == {"network", "auth", "malformed"}

Outage ==
    /\ service = "ok"
    /\ service' \in Failures
    /\ UNCHANGED <<now, remote, cache, contact_df, error, total, today_messages,
                   last_7_days, daily_contacts, recent, display_df, csv, raised, passes,
                   queries, response, fetched, clock>>

Restore ==
    /\ service # "ok"
    /\ service' = "ok"
    /\ UNCHANGED <<now, remote, cache, contact_df, error, total, today_messages,
                   last_7_days, daily_contacts, recent, display_df, csv, raised, passes,
                   queries, response, fetched, clock>>

(***************************************************************************)
(* The state before the first run.                                         *)
(***************************************************************************)
Start(table, status) ==
    /\ now = T0
    /\ remote = table
    /\ service = status
    /\ cache = {}
    /\ contact_df = EmptyFrame
    /\ error = ""
    /\ total = 0
    /\ today_messages = 0
    /\ last_7_days = 0
    /\ daily_contacts = <<>>
    /\ recent = NoRecent
    /\ display_df = EmptyFrame
    /\ csv = <<>>
    /\ raised = ""
    /\ passes = 0
    /\ queries = 0
    /\ response = [status |-> "none", data |-> <<>>]
    /\ fetched = [any |-> FALSE, value |-> EmptyFrame, at |-> 0]
    /\ clock = [call |-> T0, today |-> T0, week |-> T0]

\* the tables of at most n rows over the columns cols, with the instants of times
RECURSIVE RowSeqs(_, _, _, _)
RowSeqs(cols, names, times, n) ==
    IF n = 0 THEN {<<>>}
    ELSE LET shorter == RowSeqs(cols, names, times, n - 1)
         IN  shorter \cup
             {Append(rs, MkRow(cols, Msg(Len(rs) + 1, nm, t))) :
                 rs \in {x \in shorter : Len(x) = n - 1}, nm \in names, t \in times}

Tables(colLists, names, times, n) ==
    UNION {{[columns |-> cols, rows |-> rs] : rs \in RowSeqs(cols, names, times, n)} :
              cols \in colLists}

(***************************************************************************)
(* Spec: the dashboard over a table that grows, with the clock running and *)
(* the data source failing and recovering.                                 *)
(***************************************************************************)
Init == Start([columns |-> <<id, email>>, rows |-> <<>>], "ok")

Arrival == Len(remote.rows) < MaxArrivals /\ Submit

Next == RenderFresh \/ RenderCached \/ Tick \/ Arrival \/ Outage \/ Restore

Spec == Init /\ [][Next]_vars

(***************************************************************************)
(* SpecLoad: the dashboard over every small table of the time-like and     *)
(* other column names, with cells that parse as instants and cells that    *)
(* do not, and a data source that answers or fails.                        *)
(***************************************************************************)
LoadNames == {id, updated_time, created_at, Created_At, request_time, TIMESTAMP}

\* the lists of at most n distinct names
RECURSIVE ColLists(_, _)
ColLists(names, n) ==
    IF n = 0 THEN {}
    ELSE LET shorter == ColLists(names, n - 1)
         IN  shorter \cup {<<c>> : c \in names} \cup
             {Append(cs, c) : cs \in {x \in shorter : Len(x) = n - 1},
                              c \in {x \in names : TRUE}}

Distinct(cols) == \A i, j \in DOMAIN cols : cols[i] = cols[j] => i = j

NotADate == <<"s","o","o","n">>

LoadTimes == {Iso(Midnight + 1800, 3600), None, Text(NotADate)}

InitLoad ==
    \E table \in Tables({cs \in ColLists(LoadNames, MaxCols) : Distinct(cs)},
                        {Text(Ada)}, LoadTimes, MaxLoadRows),
       status \in {"ok"} \cup Failures :
        Start(table, status)

NextLoad == RenderFresh \/ RenderCached

SpecLoad == InitLoad /\ [][NextLoad]_vars

(***************************************************************************)
(* SpecKpi: the dashboard over tables whose instants lie on both sides of  *)
(* midnight and of the seven-day boundary.                                 *)
(***************************************************************************)
Hour == 60 * 60

KpiTimes ==
    {Iso(T0, 0),                                    \* now
     Iso(T0 - (6 * SecondsPerDay + 23 * Hour), 0),  \* now - 6d23h
     Iso(T0 - (7 * SecondsPerDay + Hour), 0),       \* now - 7d01h
     Iso(T0 - 7 * SecondsPerDay, 0),                \* now - 7d
     Iso(Midnight - Hour, 0),                       \* yesterday 23:00Z
     Iso(Midnight + 1800, 0),                       \* today 00:30Z
     Iso(Midnight + 1800, Hour),                    \* 00:30+01:00, yesterday in UTC
     Iso(T0 + Hour, 0),                             \* later today
     None}

InitKpi ==
    \E table \in Tables({<<id, name, created_at>>, <<id, name, email>>},
                        {Text(Ada)}, KpiTimes, MaxKpiRows) :
        Start(table, "ok")

NextKpi == RenderFresh \/ RenderCached

SpecKpi == InitKpi /\ [][NextKpi]_vars

(***************************************************************************)
(* SpecView: the dashboard over tables that grow past the ten rows of the  *)
(* preview, with and without the name, email and time columns.             *)
(***************************************************************************)
ViewTimes == {Iso(T0 - 3 * Hour, 0), Iso(T0 - 2 * Hour, 0), Iso(T0 - Hour, 0)}

InitView ==
    \E table \in Tables({<<id, name, email, created_at>>}, {Text(Ada)}, ViewTimes, MaxSeedRows)
                 \cup Tables({<<id, message, created_at>>}, {Text(Ada)},
                             {Iso(T0 - Hour, 0), None}, MaxSeedRows)
                 \cup Tables({<<id, name, message>>, <<id, message>>},
                             {Text(Ada), None}, {None}, MaxSeedRows) :
        Start(table, "ok")

\* the table grows before the dashboard is opened
Grow == passes = 0 /\ Submit

NextView == RenderFresh \/ Grow

SpecView == InitView /\ [][NextView]_vars

(***************************************************************************)
(* What the claims are stated in: the table execute() returned, read off   *)
(* the response, and the time-like names spelled out.                      *)
(***************************************************************************)
Ran == passes > 0

FetchedCols == [j \in 1..Len(response.data[1]) |-> response.data[1][j][1]]
FetchedCell(i, j) == response.data[i][j][2]
FetchedRows == response.status = "ok" /\ response.data # <<>>

\* the names of the model that contain "created" or "time" in some case
TimeLike == {updated_time, created_at, Created_At, request_time, TIMESTAMP}

HasTimeLike == \E j \in DOMAIN FetchedCols : FetchedCols[j] \in TimeLike

FirstTimeLike ==
    CHOOSE j \in DOMAIN FetchedCols :
        FetchedCols[j] \in TimeLike /\ \A q \in 1..(j - 1) : FetchedCols[q] \notin TimeLike

\* a value of the first time-like column is a text that is no instant
Unparseable ==
    FetchedRows /\ HasTimeLike
        /\ \E i \in DOMAIN response.data : FetchedCell(i, FirstTimeLike).k = "text"

\* the UTC instant a fetched value stands for
Instant(c) == IF c.k = "iso" THEN Ts(c.wall - c.off) ELSE NaT

EmptyPage ==
    /\ total = 0 /\ today_messages = 0 /\ last_7_days = 0
    /\ daily_contacts = <<>> /\ recent.kind = "info" /\ recent.expanders = <<>>
    /\ display_df = EmptyFrame /\ csv = <<>>

\* C1: when execute() fails (network, auth, malformed response) or a value of
\* the picked column does not parse, the run shows the error, contact_df is the
\* empty table, no exception ends the run, and every section of the page is
\* the one of the empty table.
C1_FailureGivesEmptyTable ==
    Ran /\ (response.status \in Failures \/ Unparseable) =>
        /\ error # ""
        /\ contact_df = EmptyFrame
        /\ raised = ""
        /\ EmptyPage

C1_Witness ==
    /\ Ran /\ Unparseable /\ error = "to_datetime"
    /\ contact_df = EmptyFrame /\ raised = "" /\ recent.kind = "info"

\* C3 as claimed: for every non-empty fetched table, the first time-like column
\* in column order, and no other, is renamed to request_time; no column is
\* renamed when no name matches.
C3_EveryTableRenamed ==
    Ran /\ FetchedRows =>
        contact_df.columns =
            IF HasTimeLike THEN [FetchedCols EXCEPT ![FirstTimeLike] = request_time]
            ELSE FetchedCols

\* C3 amended: that holds when the values of the first time-like column parse
\* as instants, and then the column holds their UTC instants and every other
\* cell is untouched; when one of them does not parse the load fails and the
\* table returned is the empty one.
C3_FirstTimeLikeRenamed ==
    Ran /\ FetchedRows =>
        IF Unparseable THEN contact_df = EmptyFrame
        ELSE /\ contact_df.columns =
                    IF HasTimeLike THEN [FetchedCols EXCEPT ![FirstTimeLike] = request_time]
                    ELSE FetchedCols
             /\ Len(contact_df.data) = Len(response.data)
             /\ \A i \in DOMAIN response.data : \A j \in DOMAIN FetchedCols :
                    contact_df.data[i][j] =
                        IF HasTimeLike /\ j = FirstTimeLike THEN Instant(FetchedCell(i, j))
                        ELSE FetchedCell(i, j)

C3_Witness ==
    /\ Ran /\ FetchedRows
    /\ FetchedCols = <<id, updated_time, created_at>>
    /\ contact_df.columns = <<id, request_time, created_at>>
    /\ contact_df.data[1][2] = Ts(Midnight + 1800 - 3600)

\* C9: the table returned has at most one column named request_time, exactly
\* one when the fetched table is non-empty, has a time-like column and the load
\* did not fail, and the time-based computations read that column: none of
\* them stops the run.
C9_OneRequestTime ==
    Ran =>
        /\ Cardinality(Positions(contact_df, request_time)) <= 1
        /\ (FetchedRows /\ HasTimeLike /\ error = ""
                => Cardinality(Positions(contact_df, request_time)) = 1)
        /\ raised = ""

\* C2: a run that starts less than 60 seconds after the last execute() call
\* returned makes no call and shows the table that call produced; any other run
\* makes one call; the cache never holds more than one entry.
C2_CachedForSixtySeconds ==
    /\ [](Cardinality(cache) <= 1)
    /\ [][passes' = passes + 1 =>
            IF fetched.any /\ now - fetched.at < 60
            THEN queries' = queries /\ contact_df' = fetched.value
            ELSE queries' = queries + 1]_vars

\* a run 59 seconds after the call, shown the cached table although a message
\* has arrived since
C2_Witness ==
    /\ passes = 2 /\ queries = 1
    /\ clock.call - fetched.at = 59
    /\ contact_df = fetched.value
    /\ Len(remote.rows) > Len(contact_df.index)

(***************************************************************************)
(* The KPI claims, stated on contact_df and the instants the run read.     *)
(***************************************************************************)
Rendered == Ran /\ raised = ""

\* the rows of contact_df that carry an instant in the request_time column
TimeColumn == CHOOSE j \in DOMAIN contact_df.columns : contact_df.columns[j] = request_time

Timed ==
    IF contact_df.index = <<>> \/ ~HasColumn(contact_df, request_time) THEN {}
    ELSE {i \in DOMAIN contact_df.data : contact_df.data[i][TimeColumn].k = "ts"}

InstantOf(i) == contact_df.data[i][TimeColumn].t

\* C4: Today is the number of rows whose request_time falls on the UTC calendar
\* day of the instant read at line 80, and 0 for an empty table or one without
\* a request_time column.
C4_TodayIsUtcDay ==
    Rendered =>
        today_messages =
            Cardinality({i \in Timed : InstantOf(i) \div 86400 = clock.today \div 86400})

\* now = 2024-01-02T01:00Z, rows at 2024-01-01T23:00Z and 2024-01-02T00:30Z
C4_Witness ==
    /\ Rendered /\ clock.today = T0
    /\ Len(contact_df.index) = 2
    /\ {InstantOf(i) : i \in Timed} = {Midnight - Hour, Midnight + 1800}
    /\ today_messages = 1

\* C5: Last 7 days is the number of rows whose request_time is at or after the
\* instant read at line 93 less 7 x 24 hours, and 0 for an empty table or one
\* without a request_time column.
C5_RollingWeek ==
    Rendered =>
        last_7_days =
            Cardinality({i \in Timed : InstantOf(i) >= clock.week - 7 * 24 * 3600})

\* rows exactly at now - 7d (counted) and at now - 7d01h (not counted)
C5_Witness ==
    /\ Rendered /\ clock.week = T0
    /\ Len(contact_df.index) = 2
    /\ {InstantOf(i) : i \in Timed} = {T0 - 7 * 24 * 3600, T0 - 7 * 24 * 3600 - 3600}
    /\ last_7_days = 1

\* C10: in every run 0 <= Today <= Last 7 days <= Total.
C10_KpiOrdered ==
    Ran => 0 <= today_messages /\ today_messages <= last_7_days /\ last_7_days <= total

\* a row dated later today than the instant the run read is in both counts
C10_Witness ==
    /\ Rendered
    /\ \E i \in Timed : InstantOf(i) > clock.week
    /\ today_messages = 1 /\ last_7_days = 1 /\ total = 2

(***************************************************************************)
(* The claims about Recent Activity, the full table and the CSV, stated on *)
(* contact_df and the row labels of what is shown.                         *)
(***************************************************************************)
Shown == Rendered /\ contact_df.index # <<>> /\ contact_df.columns # <<>>

Min(a, b) == IF a < b THEN a ELSE b

\* the row of contact_df a label names (labels are 0, 1, ... in source order)
RowOf(idx) == idx + 1

\* the labels are in descending order of request_time, rows without an
\* instant last
Descending(labels) ==
    \A p, q \in DOMAIN labels : p < q =>
        \/ RowOf(labels[q]) \notin Timed
        \/ /\ RowOf(labels[p]) \in Timed
           /\ InstantOf(RowOf(labels[p])) >= InstantOf(RowOf(labels[q]))

\* the labels are a rearrangement of n rows' labels
Rearranged(labels, n) ==
    Len(labels) = n /\ \A i \in 0..(n - 1) : \E p \in DOMAIN labels : labels[p] = i

\* C6: the preview shows at most 10 rows: in descending request_time order,
\* no row left out being later than a row shown; or the first 10 rows in source
\* order when the table has no request_time column.
C6_PreviewLatestTen ==
    Shown =>
        LET labels == recent.frame.index
            n == Len(contact_df.index)
        IN  /\ Len(labels) <= 10
            /\ Len(labels) = Min(n, 10)
            /\ \A p, q \in DOMAIN labels : labels[p] = labels[q] => p = q
            /\ \A p \in DOMAIN labels : labels[p] \in 0..(n - 1)
            /\ IF HasColumn(contact_df, request_time)
               THEN /\ Descending(labels)
                    /\ \A p \in DOMAIN labels : \A r \in 0..(n - 1) :
                           (\A q \in DOMAIN labels : labels[q] # r)
                               => Descending(<<labels[p], r>>)
               ELSE labels = [i \in 1..Min(n, 10) |-> i - 1]

\* 11 rows whose first three have request_time ordinals [3,1,2]: the preview is
\* the 8 later rows, latest first, then rows 0 and 2; row 1 is cut off
C6_Witness ==
    /\ Shown /\ Len(contact_df.index) = 11 /\ {1, 2, 3} \subseteq Timed
    /\ InstantOf(1) = T0 - Hour /\ InstantOf(2) = T0 - 3 * Hour /\ InstantOf(3) = T0 - 2 * Hour
    /\ recent.frame.index = <<10, 9, 8, 7, 6, 5, 4, 3, 0, 2>>

\* C7: the CSV is a header line of the column names and one line per row of
\* the displayed table, in its order, with a field per column and none for the
\* row label; the displayed table is the whole table in descending request_time
\* order, or in source order without that column.
C7_CsvIsDisplayedTable ==
    Shown =>
        LET n == Len(contact_df.index)
        IN  /\ Rearranged(display_df.index, n)
            /\ IF HasColumn(contact_df, request_time) THEN Descending(display_df.index)
               ELSE display_df.index = contact_df.index
            /\ display_df.columns = contact_df.columns
            /\ Len(csv) = n + 1
            /\ csv[1] = contact_df.columns
            /\ \A i \in 1..n :
                  /\ display_df.data[i] = contact_df.data[RowOf(display_df.index[i])]
                  /\ Len(csv[i + 1]) = Len(contact_df.columns)
                  /\ \A j \in DOMAIN contact_df.columns :
                        csv[i + 1][j] =
                            LET c == display_df.data[i][j]
                            IN  IF c.k \in {"none", "nat"} THEN <<>> ELSE Str(c)

\* a table of three rows displayed and exported latest first
C7_Witness ==
    /\ Shown /\ display_df.index = <<2, 0, 1>>
    /\ csv[1] = <<id, name, email, request_time>>
    /\ Len(csv) = 4
    /\ csv[2][1] = <<"num", 3>> /\ csv[3][1] = <<"num", 1>> /\ csv[4][1] = <<"num", 2>>

\* what an expander of the row labelled idx has to show: name and email, or
\* "Unknown" and "" for a column the table lacks, and every field but id
LabelOf(idx) ==
    <<IF HasColumn(contact_df, name)
      THEN Str(contact_df.data[RowOf(idx)][CHOOSE j \in DOMAIN contact_df.columns :
                                              contact_df.columns[j] = name])
      ELSE <<"text", Unknown>>,
      IF HasColumn(contact_df, email)
      THEN Str(contact_df.data[RowOf(idx)][CHOOSE j \in DOMAIN contact_df.columns :
                                              contact_df.columns[j] = email])
      ELSE <<"text", <<>>>> >>

ValuesOf(idx) ==
    LET shown == SelectSeq([j \in 1..Len(contact_df.columns) |-> j],
                           LAMBDA j : contact_df.columns[j] # id)
    IN  [f \in 1..Len(shown) |-> Str(contact_df.data[RowOf(idx)][shown[f]])]

ExpandersShowRows ==
    /\ recent.kind = "expanders"
    /\ Len(recent.expanders) = Len(recent.frame.index)
    /\ \A p \in DOMAIN recent.expanders :
          LET x == recent.expanders[p]
          IN  /\ x.idx = recent.frame.index[p]
              /\ x.label = LabelOf(x.idx)
              /\ [f \in DOMAIN x.fields |-> x.fields[f][2]] = ValuesOf(x.idx)

\* C8 as claimed: for every non-empty table each Recent Activity row is an
\* expander labelled with the row's name and email and holding the row's fields
\* but id.
C8_EveryTableExpanders == Shown => ExpandersShowRows

\* C8 amended: that holds for a table with a name, an email or a request_time
\* column; a table with none of the three is shown as a plain table of its
\* first 10 rows, all columns.
C8_ExpandersOrPlainTable ==
    Shown =>
        IF \E c \in {name, email, request_time} : HasColumn(contact_df, c)
        THEN ExpandersShowRows
        ELSE /\ recent.kind = "dataframe"
             /\ recent.expanders = <<>>
             /\ recent.frame.columns = contact_df.columns
             /\ recent.frame.index = [i \in 1..Min(Len(contact_df.index), 10) |-> i - 1]
             /\ \A i \in DOMAIN recent.frame.data :
                    recent.frame.data[i] = contact_df.data[i]

\* a table without name and email, shown latest first and the row without an
\* instant last: the expander of the latest row is labelled "Unknown" and ""
\* and holds that row's fields
C8_Witness ==
    /\ Shown /\ recent.kind = "expanders"
    /\ contact_df.columns = <<id, message, request_time>>
    /\ recent.frame.index = <<2, 1, 0>>
    /\ contact_df.data[1][3] = NaT
    /\ recent.expanders[1].label = << <<"text", Unknown>>, <<"text", <<>>>> >>
    /\ recent.expanders[1].fields[2][2] = Str(contact_df.data[3][3])

====
